---- MODULE Spec2Model ----
(***************************************************************************)
(* State-machine model of the documentation chat application:              *)
(*   - App (src/unnamed/part_000, lines 1-369): the knowledge-group store, *)
(*     the chat log, the suggestion fetcher and the document ingestion;    *)
(*   - KnowledgeBaseManager (src/unnamed/part_001, lines 93-364): the      *)
(*     sidebar whose handlers validate the input before calling App.       *)
(*                                                                         *)
(* React state cells are the variables.  An event handler, together with   *)
(* the render and the effects its state updates cause, is one action.  An  *)
(* awaited call (getInitialSuggestions, generateContentWithUrlContext,     *)
(* the document decoders) is a record in a set/sequence of pending calls;  *)
(* its continuation is a separate action that may fire at any later time.  *)
(*                                                                         *)
(* Encodings.  A URL string is an integer: 0 is a blank string, -1 a       *)
(* string that does not parse as a URL, n >= 1 a well-formed absolute URL. *)
(* A text (query, message text, document content) is a sequence of         *)
(* one-character or longer string pieces; " " is whitespace.  Date.now()   *)
(* is a stamp that differs from every stamp still present in the log or in  *)
(* a pending chat request (only equality of ids is ever observed).         *)
(***************************************************************************)
EXTENDS Integers, Sequences, FiniteSets, TLC

(***************************** bounds ***************************************)
\* The user follows one of two plans, fixed at the start: editing URLs or editing
\* documents (switching groups and chatting belong to both).  Without a credential
\* no request is ever issued and the edits are explored deeply; with one they are
\* kept short and the requests are explored.
\* URL entries by which the store may differ from the initial one, no credential
MaxUrlEdits == 6
\* documents the store may hold in total, no credential
MaxDocEdits == 6
\* the same two bounds with a credential
MaxOnlineUrlEdits == 1
MaxOnlineDocEdits == 1
\* messages the log may hold: nothing is appended to a log of this length
MaxLog == 5
\* suggestion fetches that may be unresolved together
MaxSugFetches == 2

(************************* program constants ********************************)
\* a limit that lets one entry too many in
MaxUrlsOffByOne == 20 + 1

MAX_URLS == 20
MAX_DOCS == 5

NoError == "null"

Max(S) == IF S = {} THEN 0 ELSE CHOOSE x \in S : \A y \in S : y <= x

\* the nine and fifteen entries of the two initial lists; titles differ from urls
GEMINI_DOCS_KNOWLEDGE_URLS == [i \in 1..9 |-> [url |-> i, title |-> 1000 + i]]
MODEL_CAPABILITIES_KNOWLEDGE_URLS == [i \in 1..15 |-> [url |-> 9 + i, title |-> 1009 + i]]

INITIAL_URL_GROUPS ==
  << [id |-> "gemini-overview", name |-> "Gemini Docs Overview",
      urls |-> GEMINI_DOCS_KNOWLEDGE_URLS, documents |-> <<>>],
     [id |-> "model-capabilities", name |-> "Model Capabilities",
      urls |-> MODEL_CAPABILITIES_KNOWLEDGE_URLS, documents |-> <<>>] >>

VARIABLES
  urlGroups,               \* useState<URLGroup[]>
  activeUrlGroupId,        \* useState<string>
  chatMessages,            \* useState<ChatMessage[]>
  isLoading,               \* useState(false)
  isFetchingSuggestions,   \* useState(false)
  initialQuerySuggestions, \* useState<string[]>
  isProcessingDoc,         \* useState(false)
  docError,                \* useState<string|null>
  urlError,                \* KnowledgeBaseManager useState<string|null>
  apiKey,                  \* process.env.API_KEY is set
  mounted,                 \* the first render's effects have run
  chatRequests,            \* unresolved generateContentWithUrlContext calls
  sugFetches,              \* unresolved getInitialSuggestions calls, oldest first
  docJobs,                 \* unresolved handleAddDocument extractions
  sugOrigin,               \* history: which trigger the shown suggestions come from
  plan,                    \* the user's plan (a bound of the model)
  lastOp                   \* history: "send:blank" / "send:ignored" right after a send
                           \* the handler returned from at once, "chat:orphan" right
                           \* after a generation call resolved whose placeholder the
                           \* log no longer held, else "other"

vars == << urlGroups, activeUrlGroupId, chatMessages, isLoading,
           isFetchingSuggestions, initialQuerySuggestions, isProcessingDoc,
           docError, urlError, apiKey, mounted, chatRequests, sugFetches,
           docJobs, sugOrigin, plan, lastOp >>

storeVars == << urlGroups, activeUrlGroupId >>
chatVars == << chatMessages, isLoading, chatRequests >>
sugVars == << isFetchingSuggestions, initialQuerySuggestions, sugFetches, sugOrigin >>
docVars == << isProcessingDoc, docError, docJobs >>

(***************************** helpers **************************************)
GroupIds(groups) == { groups[i].id : i \in DOMAIN groups }

\* urlGroups.find(group => group.id === id); array order decides, ids are unique
FindGroup(groups, id) ==
  LET hits == { i \in DOMAIN groups : groups[i].id = id }
  IN  groups[CHOOSE i \in hits : \A j \in hits : i <= j]

HasGroup(groups, id) == \E i \in DOMAIN groups : groups[i].id = id

\* currentUrlsForChat / currentDocsForChat: the active group's lists, else []
currentUrlsForChat(groups, id) == IF HasGroup(groups, id) THEN FindGroup(groups, id).urls ELSE <<>>
currentDocsForChat(groups, id) == IF HasGroup(groups, id) THEN FindGroup(groups, id).documents ELSE <<>>

UrlStrings(urls) == [i \in DOMAIN urls |-> urls[i].url]
DocContents(docs) == [i \in DOMAIN docs |-> docs[i].content]

IsSpace(c) == c \in {" ", "\n", "\t"}

\* String.prototype.trim on a text
RECURSIVE TrimLeft(_)
TrimLeft(t) == IF t # <<>> /\ IsSpace(Head(t)) THEN TrimLeft(Tail(t)) ELSE t
RECURSIVE TrimRight(_)
TrimRight(t) ==
  IF t # <<>> /\ IsSpace(t[Len(t)]) THEN TrimRight(SubSeq(t, 1, Len(t) - 1)) ELSE t
\* a trim that trims nothing
TrimNothing(t) == t

Trim(t) == TrimRight(TrimLeft(t))

\* the least positive number outside S
Fresh(S) == CHOOSE n \in 1..(Cardinality(S) + 1) : n \notin S /\ \A m \in 1..(n - 1) : m \in S

\* Date.now() for an id appended to log while reqs are pending: a stamp that no id
\* still held by the log or by a pending request carries
Stamps(log, reqs) ==
  { log[i].id.n : i \in DOMAIN log } \cup { r.placeholder.id.n : r \in reqs }
Now(log, reqs) == Fresh(Stamps(log, reqs))

NoUrlContext == [defined |-> FALSE, items |-> <<>>]

Message(kind, n, text, sender, loading, ctx) ==
  [id |-> [kind |-> kind, n |-> n], text |-> text, sender |-> sender,
   isLoading |-> loading, urlContext |-> ctx]

SystemMessage(kind, n, text) == Message(kind, n, text, "system", FALSE, NoUrlContext)

(********************** effects (part_000 lines 84-149) *********************)
\* the message the welcome effect installs as the whole log
WelcomeMessage(groups, id) ==
  LET name == IF HasGroup(groups, id) THEN FindGroup(groups, id).name ELSE "None"
      text == IF ~apiKey THEN <<"ERROR: Gemini API Key (process.env.API_KEY) is not configured.">>
              ELSE <<"Welcome to Documentation Chat Bot! You're currently browsing content from: ", name>>
  IN  SystemMessage("system-welcome", Now(<<>>, chatRequests), text)

\* an effect that adds the welcome message to the log it finds
WelcomeEffectAppending(groups, id) ==
  chatMessages' = Append(chatMessages, WelcomeMessage(groups, id))

\* useEffect(..., [activeUrlGroupId, urlGroups]): replaces the log
WelcomeEffect(groups, id) == chatMessages' = << WelcomeMessage(groups, id) >>

\* every fetch still unresolved is no longer the most recent trigger
Supersede(fetches) == [i \in DOMAIN fetches |-> [fetches[i] EXCEPT !.latest = FALSE]]

\* fetchAndSetInitialSuggestions up to its await
fetchAndSetInitialSuggestions(urls, docs) ==
  IF Len(urls) = 0 /\ Len(docs) = 0
  THEN /\ initialQuerySuggestions' = <<>>
       /\ sugOrigin' = "none"
       /\ sugFetches' = Supersede(sugFetches)
       /\ UNCHANGED isFetchingSuggestions
  ELSE /\ isFetchingSuggestions' = TRUE
       /\ initialQuerySuggestions' = <<>>
       /\ sugOrigin' = "none"
       /\ sugFetches' = Append(Supersede(sugFetches),
                               [urls |-> urls, docContents |-> DocContents(docs), latest |-> TRUE])

\* useEffect(..., [currentUrlsForChat, currentDocsForChat, ...])
SuggestionsEffect(groups, id) ==
  LET urlStrings == UrlStrings(currentUrlsForChat(groups, id))
      docs == currentDocsForChat(groups, id)
  IN  IF (Len(urlStrings) > 0 \/ Len(docs) > 0) /\ apiKey
      THEN fetchAndSetInitialSuggestions(urlStrings, docs)
      ELSE /\ initialQuerySuggestions' = <<>>
           /\ sugOrigin' = "none"
           /\ sugFetches' = Supersede(sugFetches)
           /\ UNCHANGED isFetchingSuggestions

\* the render after a store update and the effects whose dependencies changed:
\* the welcome effect whenever urlGroups or activeUrlGroupId is a new value, the
\* suggestions effect when the active group's urls or documents array is a new one
\* (when id names no group, lines 68-69 build a new [] at every render)
Commit(groups, id, listsAreNew) ==
  /\ urlGroups' = groups
  /\ activeUrlGroupId' = id
  /\ WelcomeEffect(groups, id)
  /\ IF listsAreNew \/ ~HasGroup(groups, id)
     THEN SuggestionsEffect(groups, id)
     ELSE UNCHANGED sugVars

\* the model's bound on overlapping fetches: the user edits the store or switches
\* group only while fewer than MaxSugFetches fetches are unresolved
MayTrigger == Len(sugFetches) < MaxSugFetches

\* how far the URL lists are from the initial ones: initial entries missing plus
\* other entries present; and the number of documents held
Items(list) == { list[i] : i \in DOMAIN list }
UrlDistance(groups) ==
  LET d(i) == Cardinality(Items(INITIAL_URL_GROUPS[i].urls) \ Items(groups[i].urls))
            + Cardinality(Items(groups[i].urls) \ Items(INITIAL_URL_GROUPS[i].urls))
  IN  d(1) + d(2)
TotalDocs(groups) == Len(groups[1].documents) + Len(groups[2].documents)

UrlLimit == IF plan # "urls" THEN 0 ELSE IF apiKey THEN MaxOnlineUrlEdits ELSE MaxUrlEdits
DocLimit == IF plan # "documents" THEN 0 ELSE IF apiKey THEN MaxOnlineDocEdits ELSE MaxDocEdits

(***************************** construction *********************************)
Init ==
  /\ urlGroups = INITIAL_URL_GROUPS
  /\ activeUrlGroupId = INITIAL_URL_GROUPS[1].id
  /\ chatMessages = <<>>
  /\ isLoading = FALSE
  /\ isFetchingSuggestions = FALSE
  /\ initialQuerySuggestions = <<>>
  /\ isProcessingDoc = FALSE
  /\ docError = NoError
  /\ urlError = NoError
  /\ apiKey \in BOOLEAN
  /\ plan \in {"urls", "documents"}
  /\ mounted = FALSE
  /\ chatRequests = {}
  /\ sugFetches = <<>>
  /\ docJobs = {}
  /\ sugOrigin = "none"
  /\ lastOp = "init"

\* the effects of the first render, in declaration order
Mount ==
  /\ ~mounted
  /\ mounted' = TRUE
  /\ WelcomeEffect(urlGroups, activeUrlGroupId)
  /\ SuggestionsEffect(urlGroups, activeUrlGroupId)
  /\ lastOp' = "other"
  /\ UNCHANGED << storeVars, isLoading, chatRequests, docVars, urlError, apiKey, plan >>

(************************** group selection *********************************)
\* a select that still offers a group the store no longer holds
GroupOptionsWithStale == GroupIds(urlGroups) \cup { "removed-group" }

\* the <option> values of the group select (part_001 lines 229-233)
GroupOptions == GroupIds(urlGroups)

\* onSetGroupId = setActiveUrlGroupId: a setter call; React skips the render when
\* the value is the one already held
setActiveUrlGroupId(id) ==
  /\ mounted
  /\ IF id = activeUrlGroupId
     THEN UNCHANGED << storeVars, chatMessages, sugVars >>
     ELSE Commit(urlGroups, id, TRUE)
  /\ lastOp' = "other"
  /\ UNCHANGED << isLoading, chatRequests, docVars, urlError, apiKey, mounted, plan >>

\* the select's onChange: fires when the user picks another option
SelectGroup ==
  \E id \in GroupOptions :
    /\ id # activeUrlGroupId
    /\ MayTrigger
    /\ setActiveUrlGroupId(id)

(******************************* URLs ***************************************)
\* App.handleAddUrl's updater (part_000 lines 153-163)
AddUrlUpdater(prevGroups, id, url) ==
  [i \in DOMAIN prevGroups |->
     IF prevGroups[i].id = id
     THEN IF /\ Len(prevGroups[i].urls) < MAX_URLS
             /\ ~\E k \in DOMAIN prevGroups[i].urls : prevGroups[i].urls[k].url = url
          THEN [prevGroups[i] EXCEPT !.urls = Append(@, [url |-> url, title |-> url])]
          ELSE prevGroups[i]
     ELSE prevGroups[i]]

\* App.handleAddUrl: the updater, the render, the effects
handleAddUrl(url) ==
  LET next == AddUrlUpdater(urlGroups, activeUrlGroupId, url)
  IN  Commit(next, activeUrlGroupId,
             currentUrlsForChat(next, activeUrlGroupId)
               # currentUrlsForChat(urlGroups, activeUrlGroupId))

\* an updater whose filter keeps what it should drop
RemoveUrlUpdaterInverted(prevGroups, id, urlToRemove) ==
  [i \in DOMAIN prevGroups |->
     IF prevGroups[i].id = id
     THEN [prevGroups[i] EXCEPT !.urls = SelectSeq(@, LAMBDA item : item.url = urlToRemove)]
     ELSE prevGroups[i]]

\* App.handleRemoveUrl's updater (part_000 lines 167-174)
RemoveUrlUpdater(prevGroups, id, urlToRemove) ==
  [i \in DOMAIN prevGroups |->
     IF prevGroups[i].id = id
     THEN [prevGroups[i] EXCEPT !.urls = SelectSeq(@, LAMBDA item : item.url # urlToRemove)]
     ELSE prevGroups[i]]

\* App.handleRemoveUrl: filter always builds a new urls array
handleRemoveUrl(urlToRemove) ==
  Commit(RemoveUrlUpdater(urlGroups, activeUrlGroupId, urlToRemove), activeUrlGroupId, TRUE)

\* new URL(urlString) succeeds
isValidUrl(u) == u >= 1

\* currentUrlInput.trim() is empty
IsBlankUrl(u) == u = 0

\* the sidebar's handler without its duplicate test
KnowledgeBaseManager_handleAddUrlNoDuplicateTest(u) ==
  LET urls == currentUrlsForChat(urlGroups, activeUrlGroupId)
      reject(msg) == /\ urlError' = msg
                     /\ lastOp' = "other"
                     /\ UNCHANGED << storeVars, chatMessages, sugVars >>
  IN  /\ mounted
      /\ IF IsBlankUrl(u) THEN reject("URL cannot be empty.")
         ELSE IF ~isValidUrl(u) THEN reject("Invalid URL format. Please include http:// or https://")
         ELSE IF Len(urls) >= MAX_URLS THEN reject("You can add a maximum of MAX_URLS URLs to the current group.")
         ELSE /\ MayTrigger
              /\ handleAddUrl(u)
              /\ UrlDistance(urlGroups') <= UrlLimit
              /\ urlError' = NoError
              /\ lastOp' = "other"
      /\ UNCHANGED << isLoading, chatRequests, docVars, apiKey, mounted, plan >>

\* KnowledgeBaseManager.handleAddUrl with currentUrlInput = u (typing u cleared urlError)
KnowledgeBaseManager_handleAddUrl(u) ==
  LET urls == currentUrlsForChat(urlGroups, activeUrlGroupId)
      reject(msg) == /\ urlError' = msg
                     /\ lastOp' = "other"
                     /\ UNCHANGED << storeVars, chatMessages, sugVars >>
  IN  /\ mounted
      /\ IF IsBlankUrl(u) THEN reject("URL cannot be empty.")
         ELSE IF ~isValidUrl(u) THEN reject("Invalid URL format. Please include http:// or https://")
         ELSE IF Len(urls) >= MAX_URLS THEN reject("You can add a maximum of MAX_URLS URLs to the current group.")
         ELSE IF \E k \in DOMAIN urls : urls[k].url = u
              THEN reject("This URL has already been added to the current group.")
         ELSE /\ MayTrigger
              /\ handleAddUrl(u)
              /\ UrlDistance(urlGroups') <= UrlLimit
              /\ urlError' = NoError
              /\ lastOp' = "other"
      /\ UNCHANGED << isLoading, chatRequests, docVars, apiKey, mounted, plan >>

\* what the user types into the URL field: a blank string, a malformed one (both
\* explored without a credential only), the
\* first entry of the shown list (a duplicate) and a URL the list does not hold
\* (the one after the largest shown, which is also the one a removal just took)
UrlInputs(urls) ==
  (IF apiKey THEN {} ELSE {0, -1}) \cup { urls[i].url : i \in DOMAIN urls \cap {1} }
          \cup { Max({ urls[i].url : i \in DOMAIN urls }) + 1 }

\* the Add button is disabled at maxUrls, the Enter key of the field
\* (part_001 line 253) calls the handler all the same
AddUrl ==
  /\ UrlLimit > 0
  /\ \E u \in UrlInputs(currentUrlsForChat(urlGroups, activeUrlGroupId)) :
       KnowledgeBaseManager_handleAddUrl(u)

\* the entry whose trash button the user clicks: the last one shown
RemovableUrls(urls) == { urls[i].url : i \in DOMAIN urls \cap {Len(urls)} }

\* KnowledgeBaseManager.handleConfirmUrlDelete with urlToDelete set from the list
handleConfirmUrlDelete(u) ==
  /\ mounted
  /\ MayTrigger
  /\ handleRemoveUrl(u)
  /\ UrlDistance(urlGroups') <= UrlLimit
  /\ lastOp' = "other"
  /\ UNCHANGED << isLoading, chatRequests, docVars, urlError, apiKey, mounted, plan >>

RemoveUrl ==
  \E u \in RemovableUrls(currentUrlsForChat(urlGroups, activeUrlGroupId)) :
    handleConfirmUrlDelete(u)

(***************************** documents ************************************)
\* String.prototype.toLowerCase on a file extension
ToLower(ext) ==
  CASE ext = ".PDF" -> ".pdf"
    [] ext = ".DOCX" -> ".docx"
    [] ext = ".TXT" -> ".txt"
    [] OTHER -> ext

\* content.items.map(item => 'str' in item ? item.str : '').join(' ')
RECURSIVE JoinItems(_)
JoinItems(items) ==
  IF items = <<>> THEN <<>>
  ELSE IF Len(items) = 1 THEN items[1]
  ELSE items[1] \o <<" ">> \o JoinItems(Tail(items))

\* the page loop: extractedText += pageText + '\n\n'
RECURSIVE ExtractPages(_)
ExtractPages(pages) ==
  IF pages = <<>> THEN <<>>
  ELSE JoinItems(Head(pages)) \o <<"\n", "\n">> \o ExtractPages(Tail(pages))

\* the files the user picks: a name, an extension, whether the decoder throws, and
\* what it yields (mammoth's result.value, or the text items of each pdf page)
Files ==
  { [name |-> "guide", ext |-> ".pdf", corrupt |-> FALSE, value |-> <<>>,
     pages |-> << << <<"x">>, <<"y">> >> >>],
    [name |-> "notes", ext |-> ".DOCX", corrupt |-> FALSE, value |-> <<" ", "z">>,
     pages |-> <<>>],
    [name |-> "scan", ext |-> ".PDF", corrupt |-> FALSE, value |-> <<>>,
     pages |-> << <<>> >>],
    [name |-> "broken", ext |-> ".pdf", corrupt |-> TRUE, value |-> <<>>,
     pages |-> <<>>],
    [name |-> "readme", ext |-> ".TXT", corrupt |-> FALSE, value |-> <<"r">>,
     pages |-> <<>>] }

\* the try block without its test of the extracted text
ExtractionNoEmptyTest(file) ==
  LET ext == ToLower(file.ext)
      textContent == IF ext = ".docx" THEN file.value ELSE Trim(ExtractPages(file.pages))
  IN  IF ext \notin {".docx", ".pdf"}
      THEN [ok |-> FALSE, text |-> <<>>,
            error |-> "Unsupported file type. Please select a .docx or .pdf file."]
      ELSE IF file.corrupt
      THEN [ok |-> FALSE, text |-> <<>>, error |-> "decoder error"]
      ELSE [ok |-> TRUE, text |-> textContent, error |-> NoError]

\* handleAddDocument's try block up to the state update: the extracted text or the
\* message of the error thrown
Extraction(file) ==
  LET ext == ToLower(file.ext)
      textContent == IF ext = ".docx" THEN file.value ELSE Trim(ExtractPages(file.pages))
  IN  IF ext \notin {".docx", ".pdf"}
      THEN [ok |-> FALSE, text |-> <<>>,
            error |-> "Unsupported file type. Please select a .docx or .pdf file."]
      ELSE IF file.corrupt
      THEN [ok |-> FALSE, text |-> <<>>, error |-> "decoder error"]
      ELSE IF Trim(textContent) = <<>>
      THEN [ok |-> FALSE, text |-> <<>>,
            error |-> "Could not extract any text from the document. It might be empty or image-based."]
      ELSE [ok |-> TRUE, text |-> textContent, error |-> NoError]

\* Date.now() of a document id: a stamp no document of the group it joins carries
\* (ids are compared within one group's list only)
DocStamp(groups, id) ==
  Fresh({ d.id.n : d \in Items(currentDocsForChat(groups, id)) })

\* handleAddDocument's updater (part_000 lines 212-223)
\* an updater that reads the group active when it runs, not the one the handler
\* closed over
AddDocumentUpdaterToActive(prevGroups, id, newDocument) ==
  [i \in DOMAIN prevGroups |->
     IF prevGroups[i].id = activeUrlGroupId /\ Len(prevGroups[i].documents) < MAX_DOCS
     THEN [prevGroups[i] EXCEPT !.documents = Append(@, newDocument)]
     ELSE prevGroups[i]]

AddDocumentUpdater(prevGroups, id, newDocument) ==
  [i \in DOMAIN prevGroups |->
     IF prevGroups[i].id = id /\ Len(prevGroups[i].documents) < MAX_DOCS
     THEN [prevGroups[i] EXCEPT !.documents = Append(@, newDocument)]
     ELSE prevGroups[i]]

\* the updater's else branch: the group is full
DocumentsFull(prevGroups, id) ==
  \E i \in DOMAIN prevGroups :
    prevGroups[i].id = id /\ Len(prevGroups[i].documents) >= MAX_DOCS

\* KnowledgeBaseManager.handleFileChange: the file input is enabled only while the
\* shown list is below maxDocs and no document is being processed
handleFileChange(file) ==
  /\ mounted
  /\ Len(currentDocsForChat(urlGroups, activeUrlGroupId)) < MAX_DOCS
  /\ ~isProcessingDoc
  /\ TotalDocs(urlGroups) < DocLimit
  /\ IF ToLower(file.ext) \in {".docx", ".pdf"}
     THEN \* onAddDocument(file): handleAddDocument up to its first await
          /\ isProcessingDoc' = TRUE
          /\ docError' = NoError
          /\ docJobs' = docJobs \cup {[file |-> file, groupId |-> activeUrlGroupId]}
          /\ lastOp' = "other"
     ELSE \* alert('Please upload a valid .docx or .pdf file.')
          /\ lastOp' = "other"
          /\ UNCHANGED docVars
  /\ UNCHANGED << storeVars, chatVars, sugVars, urlError, apiKey, mounted, plan >>

\* without a credential the user picks among four of the files, with one among
\* the fifth and one of the four
PickableFiles ==
  IF apiKey THEN { f \in Files : f.name \in {"guide", "scan"} }
  ELSE { f \in Files : f.name # "guide" }

UploadDocument == \E file \in PickableFiles : handleFileChange(file)

\* handleAddDocument after its awaits: job.groupId is the activeUrlGroupId the
\* handler closed over
DocumentExtracted(job) ==
  LET x == Extraction(job.file)
      newDocument == [id |-> [n |-> DocStamp(urlGroups, job.groupId), name |-> job.file.name],
                      name |-> job.file.name, content |-> x.text]
      next == AddDocumentUpdater(urlGroups, job.groupId, newDocument)
  IN  /\ job \in docJobs
      /\ docJobs' = docJobs \ {job}
      /\ isProcessingDoc' = FALSE
      /\ IF x.ok
         THEN /\ job.groupId = activeUrlGroupId => MayTrigger
              /\ Commit(next, activeUrlGroupId,
                        currentDocsForChat(next, activeUrlGroupId)
                          # currentDocsForChat(urlGroups, activeUrlGroupId))
              /\ docError' = IF DocumentsFull(urlGroups, job.groupId)
                             THEN "Maximum of MAX_DOCS documents reached." ELSE docError
              /\ lastOp' = IF job.groupId = activeUrlGroupId THEN "other" ELSE "doc:late"
         ELSE /\ docError' = x.error
              /\ lastOp' = "other"
              /\ UNCHANGED << storeVars, chatMessages, sugVars >>
      /\ UNCHANGED << isLoading, chatRequests, urlError, apiKey, mounted, plan >>

ExtractionDone == \E job \in docJobs : DocumentExtracted(job)

\* App.handleRemoveDocument's updater (part_000 lines 234-241)
RemoveDocumentUpdater(prevGroups, id, docIdToRemove) ==
  [i \in DOMAIN prevGroups |->
     IF prevGroups[i].id = id
     THEN [prevGroups[i] EXCEPT !.documents = SelectSeq(@, LAMBDA doc : doc.id # docIdToRemove)]
     ELSE prevGroups[i]]

handleRemoveDocument(docIdToRemove) ==
  Commit(RemoveDocumentUpdater(urlGroups, activeUrlGroupId, docIdToRemove),
         activeUrlGroupId, TRUE)

\* the document whose trash button the user clicks: the last one shown
RemovableDocs(docs) == { docs[i].id : i \in DOMAIN docs \cap {Len(docs)} }

\* KnowledgeBaseManager.handleConfirmDocDelete with docToDelete set from the list
handleConfirmDocDelete(docId) ==
  /\ mounted
  /\ MayTrigger
  /\ handleRemoveDocument(docId)
  /\ lastOp' = "other"
  /\ UNCHANGED << isLoading, chatRequests, docVars, urlError, apiKey, mounted, plan >>

RemoveDocument ==
  \E d \in RemovableDocs(currentDocsForChat(urlGroups, activeUrlGroupId)) :
    handleConfirmDocDelete(d)

(******************************** chat **************************************)
\* the texts the user submits: empty, whitespace only, and a question with a
\* leading space
Queries == { <<>>, <<" ", "\n">>, <<" ", "q">> }

\* the handler without the isLoading test of its first line
handleSendMessageNoLoadingTest(query) ==
  /\ mounted
  /\ IF Trim(query) = <<>> \/ isFetchingSuggestions
     THEN /\ lastOp' = IF Trim(query) = <<>> THEN "send:blank" ELSE "send:ignored"
          /\ UNCHANGED << chatVars, initialQuerySuggestions, sugOrigin >>
     ELSE IF ~apiKey
     THEN /\ Len(chatMessages) < MaxLog
          /\ chatMessages' = Append(chatMessages,
               SystemMessage("error-apikey", Now(chatMessages, chatRequests),
                             <<"ERROR: API Key (process.env.API_KEY) is not configured.">>))
          /\ lastOp' = "other"
          /\ UNCHANGED << isLoading, chatRequests, initialQuerySuggestions, sugOrigin >>
     ELSE /\ Len(chatMessages) + 2 <= MaxLog
          /\ LET n == Now(chatMessages, chatRequests)
                 userMessage == Message("user", n, query, "user", FALSE, NoUrlContext)
                 modelPlaceholderMessage ==
                   Message("model-response", n, <<"Thinking...">>, "model", TRUE, NoUrlContext)
             IN  /\ chatMessages' = chatMessages \o << userMessage, modelPlaceholderMessage >>
                 /\ chatRequests' = chatRequests \cup {[placeholder |-> modelPlaceholderMessage]}
          /\ isLoading' = TRUE
          /\ initialQuerySuggestions' = <<>>
          /\ sugOrigin' = "none"
          /\ lastOp' = "other"
  /\ UNCHANGED << storeVars, isFetchingSuggestions, sugFetches, docVars, urlError,
                  apiKey, mounted, plan >>

\* the handler raising the in-flight flag before it looks for the credential
handleSendMessageFlagBeforeKeyTest(query) ==
  /\ mounted
  /\ IF Trim(query) = <<>> \/ isLoading \/ isFetchingSuggestions
     THEN /\ lastOp' = IF Trim(query) = <<>> THEN "send:blank" ELSE "send:ignored"
          /\ UNCHANGED << chatVars, initialQuerySuggestions, sugOrigin >>
     ELSE IF ~apiKey
     THEN /\ Len(chatMessages) < MaxLog
          /\ chatMessages' = Append(chatMessages,
               SystemMessage("error-apikey", Now(chatMessages, chatRequests),
                             <<"ERROR: API Key (process.env.API_KEY) is not configured.">>))
          /\ lastOp' = "other"
          /\ isLoading' = TRUE
          /\ UNCHANGED << chatRequests, initialQuerySuggestions, sugOrigin >>
     ELSE /\ Len(chatMessages) + 2 <= MaxLog
          /\ LET n == Now(chatMessages, chatRequests)
                 userMessage == Message("user", n, query, "user", FALSE, NoUrlContext)
                 modelPlaceholderMessage ==
                   Message("model-response", n, <<"Thinking...">>, "model", TRUE, NoUrlContext)
             IN  /\ chatMessages' = chatMessages \o << userMessage, modelPlaceholderMessage >>
                 /\ chatRequests' = chatRequests \cup {[placeholder |-> modelPlaceholderMessage]}
          /\ isLoading' = TRUE
          /\ initialQuerySuggestions' = <<>>
          /\ sugOrigin' = "none"
          /\ lastOp' = "other"
  /\ UNCHANGED << storeVars, isFetchingSuggestions, sugFetches, docVars, urlError,
                  apiKey, mounted, plan >>

\* handleSendMessage up to its await (part_000 lines 244-281)
handleSendMessage(query) ==
  /\ mounted
  /\ IF Trim(query) = <<>> \/ isLoading \/ isFetchingSuggestions
     THEN /\ lastOp' = IF Trim(query) = <<>> THEN "send:blank" ELSE "send:ignored"
          /\ UNCHANGED << chatVars, initialQuerySuggestions, sugOrigin >>
     ELSE IF ~apiKey
     THEN /\ Len(chatMessages) < MaxLog
          /\ chatMessages' = Append(chatMessages,
               SystemMessage("error-apikey", Now(chatMessages, chatRequests),
                             <<"ERROR: API Key (process.env.API_KEY) is not configured.">>))
          /\ lastOp' = "other"
          /\ UNCHANGED << isLoading, chatRequests, initialQuerySuggestions, sugOrigin >>
     ELSE /\ Len(chatMessages) + 2 <= MaxLog
          /\ LET n == Now(chatMessages, chatRequests)
                 userMessage == Message("user", n, query, "user", FALSE, NoUrlContext)
                 modelPlaceholderMessage ==
                   Message("model-response", n, <<"Thinking...">>, "model", TRUE, NoUrlContext)
             IN  /\ chatMessages' = chatMessages \o << userMessage, modelPlaceholderMessage >>
                 /\ chatRequests' = chatRequests \cup {[placeholder |-> modelPlaceholderMessage]}
          /\ isLoading' = TRUE
          /\ initialQuerySuggestions' = <<>>
          /\ sugOrigin' = "none"
          /\ lastOp' = "other"
  /\ UNCHANGED << storeVars, isFetchingSuggestions, sugFetches, docVars, urlError,
                  apiKey, mounted, plan >>

SendMessage == \E query \in Queries : handleSendMessage(query)

\* handleSuggestedQueryClick: the user clicks the first suggestion shown
SuggestedQueryClick ==
  /\ initialQuerySuggestions # <<>>
  /\ handleSendMessage(<< initialQuerySuggestions[1] >>)

\* what generateContentWithUrlContext settles with: a text and retrieval metadata,
\* or an error with a message
ChatResponses ==
  { [ok |-> TRUE, text |-> <<"t">>, message |-> <<>>,
     urlContextMetadata |-> [defined |-> TRUE,
        items |-> << [retrievedUrl |-> 1, urlRetrievalStatus |-> "URL_RETRIEVAL_STATUS_SUCCESS"] >>]],
    [ok |-> TRUE, text |-> <<>>, message |-> <<>>, urlContextMetadata |-> NoUrlContext],
    [ok |-> FALSE, text |-> <<>>, message |-> <<"quota">>, urlContextMetadata |-> NoUrlContext],
    [ok |-> FALSE, text |-> <<>>, message |-> <<>>, urlContextMetadata |-> NoUrlContext] }

\* a final message that keeps the placeholder's loading mark
FinalMessageStillLoading(modelPlaceholderMessage, resp) ==
  IF resp.ok
  THEN [modelPlaceholderMessage EXCEPT
          !.text = IF resp.text # <<>> THEN resp.text ELSE <<"I received an empty response.">>,
          !.urlContext = resp.urlContextMetadata]
  ELSE [modelPlaceholderMessage EXCEPT
          !.text = <<"Error: ">> \o (IF resp.message # <<>> THEN resp.message
                                     ELSE <<"Failed to get response from AI.">>),
          !.sender = "system"]

\* a catch block that forgets to change the sender
FinalMessageKeepingSender(modelPlaceholderMessage, resp) ==
  [modelPlaceholderMessage EXCEPT
     !.text = IF resp.ok
              THEN (IF resp.text # <<>> THEN resp.text ELSE <<"I received an empty response.">>)
              ELSE <<"Error: ">> \o (IF resp.message # <<>> THEN resp.message
                                     ELSE <<"Failed to get response from AI.">>),
     !.isLoading = FALSE,
     !.urlContext = IF resp.ok THEN resp.urlContextMetadata ELSE @]

\* the message that takes the placeholder's place (part_000 lines 285 and 294)
FinalMessage(modelPlaceholderMessage, resp) ==
  IF resp.ok
  THEN [modelPlaceholderMessage EXCEPT
          !.text = IF resp.text # <<>> THEN resp.text ELSE <<"I received an empty response.">>,
          !.isLoading = FALSE,
          !.urlContext = resp.urlContextMetadata]
  ELSE [modelPlaceholderMessage EXCEPT
          !.text = <<"Error: ">> \o (IF resp.message # <<>> THEN resp.message
                                     ELSE <<"Failed to get response from AI.">>),
          !.sender = "system",
          !.isLoading = FALSE]

\* a commit that takes the placeholder out and puts the final message at the end
ReplaceByIdMovingToEnd(prevMessages, id, final) ==
  IF \E i \in DOMAIN prevMessages : prevMessages[i].id = id
  THEN Append(SelectSeq(prevMessages, LAMBDA msg : msg.id # id), final)
  ELSE prevMessages

\* a commit that appends the final message instead of replacing the placeholder
ReplaceByIdAppending(prevMessages, id, final) == Append(prevMessages, final)

\* prevMessages.map(msg => msg.id === modelPlaceholderMessage.id ? final : msg)
ReplaceById(prevMessages, id, final) ==
  [i \in DOMAIN prevMessages |-> IF prevMessages[i].id = id THEN final ELSE prevMessages[i]]

\* a handler that lowers the in-flight flag in its try block, not in finally
ChatSettledFlagInTry(req, resp) ==
  /\ req \in chatRequests
  /\ chatRequests' = chatRequests \ {req}
  /\ chatMessages' = ReplaceById(chatMessages, req.placeholder.id,
                                 FinalMessage(req.placeholder, resp))
  /\ isLoading' = (IF resp.ok THEN FALSE ELSE isLoading)
  /\ lastOp' = IF \E i \in DOMAIN chatMessages : chatMessages[i].id = req.placeholder.id
               THEN "other" ELSE "chat:orphan"
  /\ UNCHANGED << storeVars, sugVars, docVars, urlError, apiKey, mounted, plan >>

\* handleSendMessage after its await: try / catch / finally
ChatSettled(req, resp) ==
  /\ req \in chatRequests
  /\ chatRequests' = chatRequests \ {req}
  /\ chatMessages' = ReplaceById(chatMessages, req.placeholder.id,
                                 FinalMessage(req.placeholder, resp))
  /\ isLoading' = FALSE
  /\ lastOp' = IF \E i \in DOMAIN chatMessages : chatMessages[i].id = req.placeholder.id
               THEN "other" ELSE "chat:orphan"
  /\ UNCHANGED << storeVars, sugVars, docVars, urlError, apiKey, mounted, plan >>

ChatResponse == \E req \in chatRequests, resp \in ChatResponses : ChatSettled(req, resp)

(***************************** suggestions **********************************)
JsonString(v) == [type |-> "string", v |-> v]
JsonNumber(v) == [type |-> "number", v |-> v]

\* a JSON text: whether it is well-formed, whether its value is an object with an
\* array under "suggestions", and that array's elements
JsonDoc(wellFormed, hasArray, items) ==
  [wellFormed |-> wellFormed, hasArray |-> hasArray, items |-> items]

\* what getInitialSuggestions settles with: an error, or a response whose text is
\* absent, or a JSON text, bare or inside a ``` fence
SuggestionResponses ==
  { [ok |-> FALSE, message |-> <<"offline">>, hasText |-> FALSE, fenced |-> FALSE,
     doc |-> JsonDoc(FALSE, FALSE, <<>>)],
    [ok |-> TRUE, message |-> <<>>, hasText |-> FALSE, fenced |-> FALSE,
     doc |-> JsonDoc(FALSE, FALSE, <<>>)],
    [ok |-> TRUE, message |-> <<>>, hasText |-> TRUE, fenced |-> TRUE,
     doc |-> JsonDoc(TRUE, TRUE, << JsonString("a"), JsonNumber("7"), JsonString("b"),
                                    JsonString("c"), JsonString("d"), JsonString("e") >>)],
    [ok |-> TRUE, message |-> <<>>, hasText |-> TRUE, fenced |-> FALSE,
     doc |-> JsonDoc(TRUE, TRUE, << JsonString("a"), JsonString("b") >>)],
    [ok |-> TRUE, message |-> <<>>, hasText |-> TRUE, fenced |-> FALSE,
     doc |-> JsonDoc(FALSE, FALSE, <<>>)],
    [ok |-> TRUE, message |-> <<>>, hasText |-> TRUE, fenced |-> FALSE,
     doc |-> JsonDoc(TRUE, FALSE, <<>>)] }

\* jsonStr after the fence regex: the inner text when the fence matches
StripFence(fenced, doc) == [fenced |-> FALSE, doc |-> doc]

\* JSON.parse(jsonStr) throws: the text is still fenced or is not well-formed
ParseThrows(jsonStr) == jsonStr.fenced \/ ~jsonStr.doc.wellFormed

\* a slice that keeps one element too many
SliceOneTooMany(list) == SubSeq(list, 1, IF Len(list) < 5 THEN Len(list) ELSE 5)

\* suggestionsArray.slice(0, 4)
Slice4(list) == SubSeq(list, 1, IF Len(list) < 4 THEN Len(list) ELSE 4)

\* the body of fetchAndSetInitialSuggestions after its await (lines 112-136):
\* whether setInitialQuerySuggestions is called and with what, and the text of the
\* system message appended (<<>>: none)
SuggestionOutcome(resp) ==
  IF ~resp.ok
  THEN [applied |-> FALSE, list |-> <<>>, kind |-> "sys-err-suggestion-fetch",
        error |-> <<"Error fetching suggestions: ">> \o
                  (IF resp.message # <<>> THEN resp.message
                   ELSE <<"Failed to fetch initial suggestions.">>)]
  ELSE IF ~resp.hasText
  THEN [applied |-> TRUE, list |-> <<>>, kind |-> "", error |-> <<>>]
  ELSE LET jsonStr == IF resp.fenced THEN StripFence(resp.fenced, resp.doc)
                      ELSE [fenced |-> FALSE, doc |-> resp.doc]
       IN  IF ParseThrows(jsonStr)
           THEN [applied |-> TRUE, list |-> <<>>, kind |-> "sys-err-suggestion-parse",
                 error |-> <<"Error parsing suggestions from AI.">>]
           ELSE IF ~jsonStr.doc.hasArray
           THEN [applied |-> TRUE, list |-> <<>>, kind |-> "sys-err-suggestion-fmt",
                 error |-> <<"Received suggestions in an unexpected format.">>]
           ELSE LET strings == SelectSeq(jsonStr.doc.items, LAMBDA x : x.type = "string")
                IN  [applied |-> TRUE, kind |-> "", error |-> <<>>,
                     list |-> Slice4([k \in DOMAIN strings |-> strings[k].v])]

RemoveAt(seq, i) == SubSeq(seq, 1, i - 1) \o SubSeq(seq, i + 1, Len(seq))

\* fetchAndSetInitialSuggestions after its await, for the i-th unresolved fetch
SuggestionsSettled(i, resp) ==
  LET out == SuggestionOutcome(resp)
  IN  /\ i \in DOMAIN sugFetches
      /\ sugFetches' = RemoveAt(sugFetches, i)
      /\ isFetchingSuggestions' = FALSE
      /\ IF out.error # <<>>
         THEN /\ Len(chatMessages) < MaxLog
              /\ chatMessages' = Append(chatMessages,
                   SystemMessage(out.kind, Now(chatMessages, chatRequests), out.error))
         ELSE UNCHANGED chatMessages
      /\ IF ~HasGroup(urlGroups, activeUrlGroupId)
         THEN \* the render's suggestions effect (new [] dependencies) clears the list
              /\ initialQuerySuggestions' = <<>>
              /\ sugOrigin' = "none"
         ELSE IF out.applied
         THEN /\ initialQuerySuggestions' = out.list
              /\ sugOrigin' = IF sugFetches[i].latest THEN "latest" ELSE "stale"
         ELSE UNCHANGED << initialQuerySuggestions, sugOrigin >>
      /\ lastOp' = "other"
      /\ UNCHANGED << storeVars, isLoading, chatRequests, docVars, urlError, apiKey,
                      mounted, plan >>

SuggestionsResponse ==
  \E i \in DOMAIN sugFetches, resp \in SuggestionResponses : SuggestionsSettled(i, resp)

Next ==
  \/ Mount \/ SelectGroup \/ AddUrl \/ RemoveUrl
  \/ UploadDocument \/ ExtractionDone \/ RemoveDocument
  \/ SendMessage \/ SuggestedQueryClick \/ ChatResponse \/ SuggestionsResponse

Spec == Init /\ [][Next]_vars

(************** the store's operations called directly **********************)
\* ids a caller of onSetGroupId may pass that the select does not offer
UnknownGroupIds == { "no-such-group" }

\* onSetGroupId(id) (part_000 line 338) called with an id of no group
SetUnknownGroup ==
  \E id \in UnknownGroupIds \ GroupIds(urlGroups) :
    /\ MayTrigger
    /\ setActiveUrlGroupId(id)

NextDirect == Next \/ SetUnknownGroup

SpecDirect == Init /\ [][NextDirect]_vars

(****************************** properties **********************************)
\* the queries a send may carry: the typed ones and the suggestion a click sends
SentQueries ==
  Queries \cup { << initialQuerySuggestions[i] >> : i \in DOMAIN initialQuerySuggestions \cap {1} }

\* C1: in every reachable state every group holds at most 20 URLs and at most 5
\* documents
C1_GroupsWithinLimits ==
  \A i \in DOMAIN urlGroups :
    Len(urlGroups[i].urls) <= 20 /\ Len(urlGroups[i].documents) <= 5

\* a group is full and an add to it has just been turned down
C1_Witness ==
  /\ \E i \in DOMAIN urlGroups :
       urlGroups[i].id = activeUrlGroupId /\ Len(urlGroups[i].urls) = 20
  /\ urlError = "You can add a maximum of MAX_URLS URLs to the current group."

\* C2: at most one generation request is unresolved at any time, and a send
\* made while one is unresolved changes neither the log nor the set of requests
C2_SingleFlight ==
  /\ [](Cardinality(chatRequests) <= 1)
  /\ [][\A q \in SentQueries :
          (chatRequests # {} /\ handleSendMessage(q))
            => UNCHANGED << chatMessages, chatRequests >>]_vars

\* a non-blank send has just been ignored while a request is unresolved and its
\* placeholder is still in the log
C2_Witness ==
  /\ lastOp = "send:ignored"
  /\ \E req \in chatRequests :
       \E i \in DOMAIN chatMessages : chatMessages[i] = req.placeholder

\* C3: the result of an earlier-triggered suggestion fetch is never applied after
\* a later trigger has been applied, and once every fetch has resolved the list
\* shown is the most recent trigger's.  Hence: whenever suggestions are shown that
\* were written by a fetch a later trigger had superseded, that later trigger's
\* fetch is still unresolved
C3_NoStaleSuggestions ==
  (sugOrigin = "stale" /\ initialQuerySuggestions # <<>>)
    => \E i \in DOMAIN sugFetches : sugFetches[i].latest

\* C4: while the active group stays the same, every step keeps each message of
\* the log at its position, unchanged or, for a loading placeholder, replaced by
\* a settled message of the same id; the log only grows at its end
LogExtends(old, new) ==
  /\ Len(new) >= Len(old)
  /\ \A i \in DOMAIN old :
       \/ new[i] = old[i]
       \/ old[i].isLoading /\ new[i].id = old[i].id /\ ~new[i].isLoading

C4_LogAppendOnly ==
  [][activeUrlGroupId' = activeUrlGroupId => LogExtends(chatMessages, chatMessages')]_vars

\* C5: a send made while a suggestion fetch is unresolved changes neither the log
\* nor the set of generation requests
C5_SendRejectedDuringFetch ==
  [][\A q \in SentQueries :
       (sugFetches # <<>> /\ handleSendMessage(q))
         => UNCHANGED << chatMessages, chatRequests >>]_vars

\* C6: in every reachable state the active group id is the id of a group of the
\* store
C6_ActiveGroupExists ==
  \E i \in DOMAIN urlGroups : urlGroups[i].id = activeUrlGroupId

\* the user has switched to the second group and edited it
C6_Witness ==
  /\ activeUrlGroupId = INITIAL_URL_GROUPS[2].id
  /\ urlGroups # INITIAL_URL_GROUPS

\* C7: a call of the group setter with an id of no group leaves the active id as
\* it was and sets an error report
C7_UnknownGroupRejected ==
  [][\A id \in UnknownGroupIds :
       (id \notin GroupIds(urlGroups) /\ setActiveUrlGroupId(id))
         => /\ activeUrlGroupId' = activeUrlGroupId
            /\ (urlError' # urlError \/ docError' # docError)]_vars

\* C8: no group holds two entries with the same url, and adding a URL the active
\* group already holds, or any URL while it holds 20 entries, sets a validation
\* error and leaves the store as it was
NoDuplicateUrls ==
  \A g \in DOMAIN urlGroups :
    \A i, j \in DOMAIN urlGroups[g].urls :
      urlGroups[g].urls[i].url = urlGroups[g].urls[j].url => i = j

C8_NoDuplicatesAndRejections ==
  /\ []NoDuplicateUrls
  /\ [][\A u \in UrlInputs(currentUrlsForChat(urlGroups, activeUrlGroupId)) :
          LET urls == currentUrlsForChat(urlGroups, activeUrlGroupId)
          IN  (/\ (Len(urls) >= 20 \/ \E k \in DOMAIN urls : urls[k].url = u)
               /\ KnowledgeBaseManager_handleAddUrl(u))
                => urlError' # NoError /\ urlGroups' = urlGroups]_vars

\* an add of a URL the active group holds has just been turned down, in a group
\* that differs from its initial list
C8_Witness ==
  /\ urlError = "This URL has already been added to the current group."
  /\ currentUrlsForChat(urlGroups, activeUrlGroupId)
       \notin { INITIAL_URL_GROUPS[i].urls : i \in DOMAIN INITIAL_URL_GROUPS }

\* C9: with a credential, no request unresolved and a non-blank query q, a send
\* appends a user message with text q and then a loading model placeholder, and
\* nothing else; when the request succeeds with text t the message with the
\* placeholder's id becomes a model message with text t (the fallback when t is
\* empty), not loading, carrying the returned metadata, every other message and
\* the length of the log staying as they were
C9_SendThenSuccess ==
  /\ [][\A q \in SentQueries :
          (/\ apiKey /\ Trim(q) # <<>>
           /\ chatRequests = {} /\ sugFetches = <<>>
           /\ handleSendMessage(q))
            => /\ Len(chatMessages') = Len(chatMessages) + 2
               /\ SubSeq(chatMessages', 1, Len(chatMessages)) = chatMessages
               /\ LET user == chatMessages'[Len(chatMessages) + 1]
                      model == chatMessages'[Len(chatMessages) + 2]
                  IN  /\ user.sender = "user" /\ user.text = q /\ ~user.isLoading
                      /\ model.sender = "model" /\ model.isLoading]_vars
  /\ [][\A req \in chatRequests, resp \in ChatResponses :
          (resp.ok /\ ChatSettled(req, resp))
            => /\ Len(chatMessages') = Len(chatMessages)
               /\ \A i \in DOMAIN chatMessages :
                    IF chatMessages[i].id = req.placeholder.id
                    THEN /\ chatMessages'[i].id = req.placeholder.id
                         /\ chatMessages'[i].sender = "model"
                         /\ chatMessages'[i].text =
                              (IF resp.text = <<>> THEN <<"I received an empty response.">>
                               ELSE resp.text)
                         /\ ~chatMessages'[i].isLoading
                         /\ chatMessages'[i].urlContext = resp.urlContextMetadata
                    ELSE chatMessages'[i] = chatMessages[i]]_vars

\* a request has succeeded: the answer with its metadata stands right after the
\* user's message, and a second exchange has begun behind it
C9_Witness ==
  \E i \in DOMAIN chatMessages :
    /\ i > 1 /\ i < Len(chatMessages)
    /\ chatMessages[i - 1].sender = "user"
    /\ chatMessages[i].sender = "model" /\ ~chatMessages[i].isLoading
    /\ chatMessages[i].text = <<"t">> /\ chatMessages[i].urlContext.defined
    /\ chatMessages[Len(chatMessages)].isLoading

\* C10: when the request fails with reason r (the error's message, or the default
\* reason when it has none) the message with the placeholder's id becomes a system
\* message with text "Error: " + r, not loading; every other message and the
\* length of the log stay as they were
C10_FailureReplacesPlaceholder ==
  [][\A req \in chatRequests, resp \in ChatResponses :
       (~resp.ok /\ ChatSettled(req, resp))
         => /\ Len(chatMessages') = Len(chatMessages)
            /\ \A i \in DOMAIN chatMessages :
                 IF chatMessages[i].id = req.placeholder.id
                 THEN /\ chatMessages'[i].id = req.placeholder.id
                      /\ chatMessages'[i].sender = "system"
                      /\ chatMessages'[i].text =
                           <<"Error: ">> \o (IF resp.message = <<>>
                                             THEN <<"Failed to get response from AI.">>
                                             ELSE resp.message)
                      /\ ~chatMessages'[i].isLoading
                 ELSE chatMessages'[i] = chatMessages[i]]_vars

\* a request has failed with a reason: the error stands where the placeholder was,
\* right after the user's message
C10_Witness ==
  \E i \in DOMAIN chatMessages :
    /\ i > 1
    /\ chatMessages[i - 1].sender = "user"
    /\ chatMessages[i].id.kind = "model-response"
    /\ chatMessages[i].sender = "system"
    /\ chatMessages[i].text = <<"Error: ", "quota">>

\* a query of whitespace only (or of nothing)
IsBlank(q) == \A k \in DOMAIN q : IsSpace(q[k])

\* what a send without a credential does: one system message at the end of the
\* log, no user message, no placeholder, the in-flight flag down, no request
OneSystemErrorAppended ==
  /\ Len(chatMessages') = Len(chatMessages) + 1
  /\ SubSeq(chatMessages', 1, Len(chatMessages)) = chatMessages
  /\ chatMessages'[Len(chatMessages')].sender = "system"
  /\ ~chatMessages'[Len(chatMessages')].isLoading
  /\ ~isLoading'
  /\ chatRequests' = {} /\ sugFetches' = <<>>

\* C11 as stated: without a credential a send of any query appends exactly one
\* system error message, no user message and no placeholder, leaves the in-flight
\* flag down and issues no request
C11_AnyQueryWithoutCredential ==
  [][\A q \in SentQueries :
       (~apiKey /\ handleSendMessage(q)) => OneSystemErrorAppended]_vars

\* C11 as amended: without a credential a send of any query that is not blank
\* appends exactly one system error message, no user message and no placeholder,
\* leaves the in-flight flag down and issues no request
C11_NonBlankQueryWithoutCredential ==
  [][\A q \in SentQueries :
       (~apiKey /\ ~IsBlank(q) /\ handleSendMessage(q)) => OneSystemErrorAppended]_vars

\* without a credential two sends have each left their error message in the log
C11_Witness ==
  /\ ~apiKey
  /\ Len(chatMessages) >= 3
  /\ \A i \in 2..Len(chatMessages) : chatMessages[i].id.kind = "error-apikey"
  /\ ~isLoading

\* C12: the in-flight flag is up exactly while a generation call is unresolved:
\* when the call resolves, with a result or an error, its placeholder in the log or
\* not, the flag goes down and no call remains, so the flag bars no later send
C12_FlagClearedOnResolve ==
  /\ [](isLoading <=> chatRequests # {})
  /\ [][\A req \in chatRequests, resp \in ChatResponses :
          ChatSettled(req, resp) => ~isLoading' /\ chatRequests' = {}]_vars

\* a call has just resolved whose placeholder a reset had taken out of the log,
\* and the flag is down
C12_Witness ==
  /\ lastOp = "chat:orphan"
  /\ ~isLoading
  /\ chatRequests = {}

\* C13: a step that makes another group the active one leaves a log of exactly
\* one message, a system welcome message naming the new group, and an empty
\* suggestion list with, when the new group has URLs or documents and a credential
\* is set, one new fetch issued for exactly these; and a generation call that
\* resolves when the log no longer holds its placeholder leaves the log as it is
C13_SwitchResetsLog ==
  /\ [][activeUrlGroupId' # activeUrlGroupId =>
          LET urls == currentUrlsForChat(urlGroups', activeUrlGroupId')
              docs == currentDocsForChat(urlGroups', activeUrlGroupId')
          IN  /\ Len(chatMessages') = 1
              /\ chatMessages'[1].sender = "system"
              /\ chatMessages'[1].id.kind = "system-welcome"
              /\ ~chatMessages'[1].isLoading
              /\ apiKey => chatMessages'[1].text[2] = FindGroup(urlGroups', activeUrlGroupId').name
              /\ initialQuerySuggestions' = <<>>
              /\ IF apiKey /\ (urls # <<>> \/ docs # <<>>)
                 THEN /\ isFetchingSuggestions'
                      /\ Len(sugFetches') = Len(sugFetches) + 1
                      /\ sugFetches'[Len(sugFetches')] =
                           [urls |-> [k \in DOMAIN urls |-> urls[k].url],
                            docContents |-> [k \in DOMAIN docs |-> docs[k].content],
                            latest |-> TRUE]
                 ELSE Len(sugFetches') = Len(sugFetches)]_vars
  /\ [][\A req \in chatRequests, resp \in ChatResponses :
          (/\ ChatSettled(req, resp)
           /\ \A i \in DOMAIN chatMessages : chatMessages[i].id # req.placeholder.id)
            => chatMessages' = chatMessages]_vars

\* the user asked in the first group and switched to the second; the call has
\* just resolved and the log is the second group's welcome message alone
C13_Witness ==
  /\ apiKey
  /\ lastOp = "chat:orphan"
  /\ activeUrlGroupId = INITIAL_URL_GROUPS[2].id
  /\ urlGroups = INITIAL_URL_GROUPS
  /\ Len(chatMessages) = 1
  /\ chatMessages[1].text[2] = INITIAL_URL_GROUPS[2].name

\* a suggestion response that is a failure: the call threw, or its text is not
\* well-formed JSON, or the parsed value has no suggestions array
SuggestionFailed(resp) ==
  \/ ~resp.ok
  \/ resp.hasText /\ (~resp.doc.wellFormed \/ ~resp.doc.hasArray)

\* C14: when a suggestion fetch completes with a failure, exactly one system
\* message is appended to the log, the suggestion list is empty and the
\* suggestion-fetch flag is down
C14_FailureDowngraded ==
  [][\A i \in DOMAIN sugFetches, resp \in SuggestionResponses :
       (SuggestionFailed(resp) /\ SuggestionsSettled(i, resp))
         => /\ Len(chatMessages') = Len(chatMessages) + 1
            /\ SubSeq(chatMessages', 1, Len(chatMessages)) = chatMessages
            /\ chatMessages'[Len(chatMessages')].sender = "system"
            /\ initialQuerySuggestions' = <<>>
            /\ ~isFetchingSuggestions']_vars

\* the first n string elements of a JSON array, in order
RECURSIVE FirstStrings(_, _)
FirstStrings(items, n) ==
  IF items = <<>> \/ n = 0 THEN <<>>
  ELSE IF Head(items).type = "string"
       THEN << Head(items).v >> \o FirstStrings(Tail(items), n - 1)
       ELSE FirstStrings(Tail(items), n)

\* C15: when a suggestion response's text, bare or inside a fence, is well-formed
\* JSON with a suggestions array, the suggestion list after the fetch is the first
\* four string elements of that array (all of them when there are fewer), in
\* order, the other elements left out
C15_FirstFourStrings ==
  [][\A i \in DOMAIN sugFetches, resp \in SuggestionResponses :
       (/\ resp.ok /\ resp.hasText /\ resp.doc.wellFormed /\ resp.doc.hasArray
        /\ SuggestionsSettled(i, resp))
         => initialQuerySuggestions' = FirstStrings(resp.doc.items, 4)]_vars

\* the fenced response with six elements, one of them a number, has been applied
C15_Witness ==
  /\ initialQuerySuggestions = << "a", "b", "c", "d" >>
  /\ sugOrigin = "latest"

\* a file whose extraction fails: its decoder throws, or the text it yields is
\* empty or whitespace only; and a file of another extension than .docx and .pdf
Unreadable(file) ==
  \/ file.corrupt
  \/ IsBlank(IF ToLower(file.ext) = ".docx" THEN file.value ELSE ExtractPages(file.pages))
Unsupported(file) == ToLower(file.ext) \notin { ".docx", ".pdf" }

\* C16: every stored document has content that is not blank; an extraction that
\* fails sets the error report and leaves the store as it was; a file of an
\* unsupported extension starts no extraction and leaves the store as it was
C16_FailedExtractionAddsNothing ==
  /\ [](\A g \in DOMAIN urlGroups : \A k \in DOMAIN urlGroups[g].documents :
          ~IsBlank(urlGroups[g].documents[k].content))
  /\ [][\A job \in docJobs :
          (Unreadable(job.file) /\ DocumentExtracted(job))
            => docError' # NoError /\ urlGroups' = urlGroups]_vars
  /\ [][\A file \in Files :
          (Unsupported(file) /\ handleFileChange(file))
            => UNCHANGED << urlGroups, docJobs >>]_vars

\* the extraction of a file with a blank page has failed in a store that holds a
\* document
C16_Witness ==
  /\ docError = "Could not extract any text from the document. It might be empty or image-based."
  /\ docJobs = {}
  /\ TotalDocs(urlGroups) >= 1

\* the URLs tried on every state: those of the initial lists and those an edit
\* can bring in
CandidateUrls == 1 .. (24 + MaxUrlEdits + 1)

\* C17: in every reachable state and for every URL u the active group does not
\* hold while it is below 20 entries, adding u puts one entry for u at the end of
\* the group's list and removing u then gives back the store as it was, the list
\* with the same entries in the same order
C17_AddRemoveRoundTrip ==
  \A u \in CandidateUrls :
    LET urls == currentUrlsForChat(urlGroups, activeUrlGroupId)
        added == AddUrlUpdater(urlGroups, activeUrlGroupId, u)
    IN  (Len(urls) < 20 /\ \A k \in DOMAIN urls : urls[k].url # u)
          => /\ Len(currentUrlsForChat(added, activeUrlGroupId)) = Len(urls) + 1
             /\ currentUrlsForChat(added, activeUrlGroupId)[Len(urls) + 1].url = u
             /\ RemoveUrlUpdater(added, activeUrlGroupId, u) = urlGroups

\* the active group's list has lost an initial entry and gained one, and has room
C17_Witness ==
  LET urls == currentUrlsForChat(urlGroups, activeUrlGroupId)
  IN  /\ mounted
      /\ Len(urls) < 20
      /\ \E k \in DOMAIN urls : urls[k].title = urls[k].url
      /\ \E g \in DOMAIN INITIAL_URL_GROUPS :
           /\ INITIAL_URL_GROUPS[g].id = activeUrlGroupId
           /\ \E e \in Items(INITIAL_URL_GROUPS[g].urls) : e \notin Items(urls)

\* C18: in every reachable state each user message of the log is directly
\* followed by the response message made with it (the placeholder, or the model
\* or system message that took its place); nothing, a suggestion-error message
\* included, stands between the two
C18_UserFollowedByResponse ==
  \A i \in DOMAIN chatMessages :
    chatMessages[i].sender = "user"
      => /\ i < Len(chatMessages)
         /\ chatMessages[i + 1].id = [kind |-> "model-response", n |-> chatMessages[i].id.n]
         /\ chatMessages[i + 1].sender \in {"model", "system"}

\* a suggestion-error message stands right after a user message and its settled
\* response
C18_Witness ==
  \E i \in DOMAIN chatMessages :
    /\ chatMessages[i].sender = "user"
    /\ i + 2 <= Len(chatMessages)
    /\ ~chatMessages[i + 1].isLoading
    /\ chatMessages[i + 2].id.kind \in
         {"sys-err-suggestion-fetch", "sys-err-suggestion-parse", "sys-err-suggestion-fmt"}
    /\ chatRequests = {}
    /\ ~isLoading

\* C19: sending a query that is empty or made of whitespace only changes nothing,
\* whatever the state: the log, the in-flight flag, the suggestion list and the
\* set of requests under way stay as they were
C19_BlankQueryIsNoOp ==
  [][\A q \in SentQueries :
       (IsBlank(q) /\ handleSendMessage(q))
         => UNCHANGED << chatMessages, isLoading, initialQuerySuggestions,
                         chatRequests, sugFetches, isFetchingSuggestions >>]_vars

\* a blank query has just been sent with a credential, nothing under way and
\* suggestions on display
C19_Witness ==
  /\ lastOp = "send:blank"
  /\ apiKey
  /\ ~isLoading
  /\ ~isFetchingSuggestions
  /\ initialQuerySuggestions # <<>>

\* the positions of the log whose message is marked as loading
LoadingMessages == { i \in DOMAIN chatMessages : chatMessages[i].isLoading }

\* C20: in every reachable state at most one message of the log is marked as
\* loading, that message is the placeholder of the request under way, and while
\* the in-flight flag is clear no message is marked as loading; this covers the
\* states where the log was reset while a request was unresolved
C20_AtMostOneLoadingMessage ==
  /\ Cardinality(LoadingMessages) <= 1
  /\ \A i \in LoadingMessages : \E req \in chatRequests : req.placeholder = chatMessages[i]
  /\ ~isLoading => LoadingMessages = {}

\* the log was reset while a request was unresolved: the flag is up and the log
\* holds no placeholder
C20_Witness ==
  /\ isLoading
  /\ chatRequests # {}
  /\ LoadingMessages = {}
  /\ Len(chatMessages) >= 1

\* the other case of C20: a placeholder stands in the log, marked as loading
C20_WitnessPlaceholder ==
  /\ isLoading
  /\ Cardinality(LoadingMessages) = 1

\* the step changes at most one list of the group id: the groups keep their
\* places, ids and names, every other group is as it was, and so is the other
\* list of the group id
OnlyListChanged(id, list) ==
  /\ DOMAIN urlGroups' = DOMAIN urlGroups
  /\ \A i \in DOMAIN urlGroups :
       /\ urlGroups'[i].id = urlGroups[i].id
       /\ urlGroups'[i].name = urlGroups[i].name
       /\ urlGroups[i].id # id => urlGroups'[i] = urlGroups[i]
       /\ list = "urls" => urlGroups'[i].documents = urlGroups[i].documents
       /\ list = "documents" => urlGroups'[i].urls = urlGroups[i].urls

\* C21: adding or removing a URL changes only the URL list of the group active
\* when the handler is called, removing a document only that group's document
\* list; an upload is filed under the group active when it starts, and when its
\* extraction completes, whichever group is active by then, only the document list
\* of the group it was filed under changes, by the new document at its end when
\* the extraction gave text and the group has room
C21_FrameEffect ==
  [][/\ \A u \in UrlInputs(currentUrlsForChat(urlGroups, activeUrlGroupId)) :
          KnowledgeBaseManager_handleAddUrl(u) => OnlyListChanged(activeUrlGroupId, "urls")
     /\ \A u \in RemovableUrls(currentUrlsForChat(urlGroups, activeUrlGroupId)) :
          handleConfirmUrlDelete(u) => OnlyListChanged(activeUrlGroupId, "urls")
     /\ \A d \in RemovableDocs(currentDocsForChat(urlGroups, activeUrlGroupId)) :
          handleConfirmDocDelete(d) => OnlyListChanged(activeUrlGroupId, "documents")
     /\ \A file \in PickableFiles :
          handleFileChange(file)
            => /\ urlGroups' = urlGroups
               /\ \A job \in docJobs' \ docJobs : job.groupId = activeUrlGroupId
     /\ \A job \in docJobs :
          DocumentExtracted(job)
            => /\ OnlyListChanged(job.groupId, "documents")
               /\ (Extraction(job.file).ok /\ ~DocumentsFull(urlGroups, job.groupId))
                    => \E doc \in Items(currentDocsForChat(urlGroups', job.groupId)) :
                         /\ doc.name = job.file.name
                         /\ currentDocsForChat(urlGroups', job.groupId)
                              = Append(currentDocsForChat(urlGroups, job.groupId), doc)]_vars

\* an extraction has just completed for a group that is no longer the active one,
\* and that group, not the active one, holds a document
C21_Witness ==
  /\ lastOp = "doc:late"
  /\ \E i \in DOMAIN urlGroups :
       /\ urlGroups[i].id # activeUrlGroupId
       /\ urlGroups[i].documents # <<>>
  /\ currentDocsForChat(urlGroups, activeUrlGroupId) = <<>>
====
